---------------------------- MODULE Spec2Model ----------------------------
(***************************************************************************)
(* Model of gold_scrape_to_sheet.py: the structured-data walk              *)
(* (_walk_for_products), the retry ladder (scrape_with_retry), the main    *)
(* block and the sheet merge (upsert_sheet).                               *)
(*                                                                         *)
(* Text is modelled as a sequence of code points, so that lower(),         *)
(* strip(), repr(), the rupee test and the digit test are computed, not    *)
(* looked up.  JSON values are records [t, v]: t is the Python type.       *)
(***************************************************************************)
EXTENDS Integers, Sequences, FiniteSets, TLC

VARIABLES
    \* ---- scrape_once_json, lines 168-185
    json_bodies,   \* the captured payloads (json_bodies + embedded)
    candidates,    \* the list _walk_for_products appends to
    wdf,           \* the DataFrame scrape_once_json returns
    wpc,           \* "call" before the extraction, "done" after
    \* ---- scrape_with_retry and __main__
    pc,            \* position of the run
    env,           \* os.environ["HEADLESS"]
    HEADLESS,      \* the module global of line 18
    df,            \* the local df of scrape_with_retry
    ret,           \* main's df: what scrape_with_retry returned, upsert_sheet's df_today
    launched,      \* one entry per chromium.launch: [kind, headless]
    results,       \* one entry per attempt that returned: its DataFrame
    open,          \* browsers launched and not yet closed
    events,        \* the steps between attempts, in order: "launch" and "close"
                   \* (a "sleep" would be a time.sleep; the code calls none)
    \* ---- the worksheet and upsert_sheet
    sheet,         \* the worksheet's data rows
    existing,      \* the local `existing` of upsert_sheet
    ops,           \* [reads, clears, writes] this run did on the worksheet
    sheet0,        \* the worksheet when this run's upsert_sheet opened it
    calls,         \* upsert_sheet calls this run made
    rerun,         \* the run before this one ended normally, with this run's df_today
    runs           \* the runs of the script started so far

wvars == <<json_bodies, candidates, wdf, wpc>>
mvars == <<pc, env, HEADLESS, df, ret, launched, results, open, events>>
svars == <<sheet, existing, ops, sheet0, calls, rerun, runs>>
vars  == <<json_bodies, candidates, wdf, wpc,
           pc, env, HEADLESS, df, ret, launched, results, open, events,
           sheet, existing, ops, sheet0, calls, rerun, runs>>

(***************************************************************************)
(* Bounds                                                                  *)
(***************************************************************************)
MaxKeys == 2
MaxCand == 2
MaxStore == 2
MaxMainStore == 1
MaxRuns == 2

(***************************************************************************)
(* Text.  A str is the sequence of its code points.  The tables are those  *)
(* of CPython 3.11 (Unicode 14.0).                                         *)
(***************************************************************************)
\* the rupee sign, U+20B9
RUPEE == 8377

\* the characters str.isspace() is true of
WHITESPACE ==
    {9, 10, 11, 12, 13, 28, 29, 30, 31, 32, 133, 160, 5760, 8192, 8193,
     8194, 8195, 8196, 8197, 8198, 8199, 8200, 8201, 8202, 8232, 8233,
     8239, 8287, 12288}

\* the decimal digits (category Nd) the \d of a str pattern matches, as
\* ranges <<lo, hi>>
DECIMAL_RUNS ==
    <<
       <<48, 57>>, <<1632, 1641>>, <<1776, 1785>>, <<1984, 1993>>, <<2406, 2415>>, <<2534, 2543>>,
       <<2662, 2671>>, <<2790, 2799>>, <<2918, 2927>>, <<3046, 3055>>, <<3174, 3183>>, <<3302, 3311>>,
       <<3430, 3439>>, <<3558, 3567>>, <<3664, 3673>>, <<3792, 3801>>, <<3872, 3881>>, <<4160, 4169>>,
       <<4240, 4249>>, <<6112, 6121>>, <<6160, 6169>>, <<6470, 6479>>, <<6608, 6617>>, <<6784, 6793>>,
       <<6800, 6809>>, <<6992, 7001>>, <<7088, 7097>>, <<7232, 7241>>, <<7248, 7257>>, <<42528, 42537>>,
       <<43216, 43225>>, <<43264, 43273>>, <<43472, 43481>>, <<43504, 43513>>, <<43600, 43609>>, <<44016, 44025>>,
       <<65296, 65305>>, <<66720, 66729>>, <<68912, 68921>>, <<69734, 69743>>, <<69872, 69881>>, <<69942, 69951>>,
       <<70096, 70105>>, <<70384, 70393>>, <<70736, 70745>>, <<70864, 70873>>, <<71248, 71257>>, <<71360, 71369>>,
       <<71472, 71481>>, <<71904, 71913>>, <<72016, 72025>>, <<72784, 72793>>, <<73040, 73049>>, <<73120, 73129>>,
       <<92768, 92777>>, <<92864, 92873>>, <<93008, 93017>>, <<120782, 120831>>, <<123200, 123209>>, <<123632, 123641>>,
       <<125264, 125273>>, <<130032, 130041>>
    >>

\* the characters with a lower-case image of one character, as
\* <<lo, hi, step, delta>>: lo, lo + step, ... hi each map to itself + delta
LOWER_RUNS ==
    <<
       <<65, 90, 1, 32>>, <<192, 214, 1, 32>>, <<216, 222, 1, 32>>, <<256, 302, 2, 1>>,
       <<306, 310, 2, 1>>, <<313, 327, 2, 1>>, <<330, 374, 2, 1>>, <<376, 376, 1, -121>>,
       <<377, 381, 2, 1>>, <<385, 385, 1, 210>>, <<386, 388, 2, 1>>, <<390, 390, 1, 206>>,
       <<391, 391, 1, 1>>, <<393, 394, 1, 205>>, <<395, 395, 1, 1>>, <<398, 398, 1, 79>>,
       <<399, 399, 1, 202>>, <<400, 400, 1, 203>>, <<401, 401, 1, 1>>, <<403, 403, 1, 205>>,
       <<404, 404, 1, 207>>, <<406, 406, 1, 211>>, <<407, 407, 1, 209>>, <<408, 408, 1, 1>>,
       <<412, 412, 1, 211>>, <<413, 413, 1, 213>>, <<415, 415, 1, 214>>, <<416, 420, 2, 1>>,
       <<422, 422, 1, 218>>, <<423, 423, 1, 1>>, <<425, 425, 1, 218>>, <<428, 428, 1, 1>>,
       <<430, 430, 1, 218>>, <<431, 431, 1, 1>>, <<433, 434, 1, 217>>, <<435, 437, 2, 1>>,
       <<439, 439, 1, 219>>, <<440, 440, 1, 1>>, <<444, 444, 1, 1>>, <<452, 452, 1, 2>>,
       <<453, 453, 1, 1>>, <<455, 455, 1, 2>>, <<456, 456, 1, 1>>, <<458, 458, 1, 2>>,
       <<459, 475, 2, 1>>, <<478, 494, 2, 1>>, <<497, 497, 1, 2>>, <<498, 500, 2, 1>>,
       <<502, 502, 1, -97>>, <<503, 503, 1, -56>>, <<504, 542, 2, 1>>, <<544, 544, 1, -130>>,
       <<546, 562, 2, 1>>, <<570, 570, 1, 10795>>, <<571, 571, 1, 1>>, <<573, 573, 1, -163>>,
       <<574, 574, 1, 10792>>, <<577, 577, 1, 1>>, <<579, 579, 1, -195>>, <<580, 580, 1, 69>>,
       <<581, 581, 1, 71>>, <<582, 590, 2, 1>>, <<880, 882, 2, 1>>, <<886, 886, 1, 1>>,
       <<895, 895, 1, 116>>, <<902, 902, 1, 38>>, <<904, 906, 1, 37>>, <<908, 908, 1, 64>>,
       <<910, 911, 1, 63>>, <<913, 929, 1, 32>>, <<932, 939, 1, 32>>, <<975, 975, 1, 8>>,
       <<984, 1006, 2, 1>>, <<1012, 1012, 1, -60>>, <<1015, 1015, 1, 1>>, <<1017, 1017, 1, -7>>,
       <<1018, 1018, 1, 1>>, <<1021, 1023, 1, -130>>, <<1024, 1039, 1, 80>>, <<1040, 1071, 1, 32>>,
       <<1120, 1152, 2, 1>>, <<1162, 1214, 2, 1>>, <<1216, 1216, 1, 15>>, <<1217, 1229, 2, 1>>,
       <<1232, 1326, 2, 1>>, <<1329, 1366, 1, 48>>, <<4256, 4293, 1, 7264>>, <<4295, 4295, 1, 7264>>,
       <<4301, 4301, 1, 7264>>, <<5024, 5103, 1, 38864>>, <<5104, 5109, 1, 8>>, <<7312, 7354, 1, -3008>>,
       <<7357, 7359, 1, -3008>>, <<7680, 7828, 2, 1>>, <<7838, 7838, 1, -7615>>, <<7840, 7934, 2, 1>>,
       <<7944, 7951, 1, -8>>, <<7960, 7965, 1, -8>>, <<7976, 7983, 1, -8>>, <<7992, 7999, 1, -8>>,
       <<8008, 8013, 1, -8>>, <<8025, 8031, 2, -8>>, <<8040, 8047, 1, -8>>, <<8072, 8079, 1, -8>>,
       <<8088, 8095, 1, -8>>, <<8104, 8111, 1, -8>>, <<8120, 8121, 1, -8>>, <<8122, 8123, 1, -74>>,
       <<8124, 8124, 1, -9>>, <<8136, 8139, 1, -86>>, <<8140, 8140, 1, -9>>, <<8152, 8153, 1, -8>>,
       <<8154, 8155, 1, -100>>, <<8168, 8169, 1, -8>>, <<8170, 8171, 1, -112>>, <<8172, 8172, 1, -7>>,
       <<8184, 8185, 1, -128>>, <<8186, 8187, 1, -126>>, <<8188, 8188, 1, -9>>, <<8486, 8486, 1, -7517>>,
       <<8490, 8490, 1, -8383>>, <<8491, 8491, 1, -8262>>, <<8498, 8498, 1, 28>>, <<8544, 8559, 1, 16>>,
       <<8579, 8579, 1, 1>>, <<9398, 9423, 1, 26>>, <<11264, 11311, 1, 48>>, <<11360, 11360, 1, 1>>,
       <<11362, 11362, 1, -10743>>, <<11363, 11363, 1, -3814>>, <<11364, 11364, 1, -10727>>, <<11367, 11371, 2, 1>>,
       <<11373, 11373, 1, -10780>>, <<11374, 11374, 1, -10749>>, <<11375, 11375, 1, -10783>>, <<11376, 11376, 1, -10782>>,
       <<11378, 11378, 1, 1>>, <<11381, 11381, 1, 1>>, <<11390, 11391, 1, -10815>>, <<11392, 11490, 2, 1>>,
       <<11499, 11501, 2, 1>>, <<11506, 11506, 1, 1>>, <<42560, 42604, 2, 1>>, <<42624, 42650, 2, 1>>,
       <<42786, 42798, 2, 1>>, <<42802, 42862, 2, 1>>, <<42873, 42875, 2, 1>>, <<42877, 42877, 1, -35332>>,
       <<42878, 42886, 2, 1>>, <<42891, 42891, 1, 1>>, <<42893, 42893, 1, -42280>>, <<42896, 42898, 2, 1>>,
       <<42902, 42920, 2, 1>>, <<42922, 42922, 1, -42308>>, <<42923, 42923, 1, -42319>>, <<42924, 42924, 1, -42315>>,
       <<42925, 42925, 1, -42305>>, <<42926, 42926, 1, -42308>>, <<42928, 42928, 1, -42258>>, <<42929, 42929, 1, -42282>>,
       <<42930, 42930, 1, -42261>>, <<42931, 42931, 1, 928>>, <<42932, 42946, 2, 1>>, <<42948, 42948, 1, -48>>,
       <<42949, 42949, 1, -42307>>, <<42950, 42950, 1, -35384>>, <<42951, 42953, 2, 1>>, <<42960, 42960, 1, 1>>,
       <<42966, 42968, 2, 1>>, <<42997, 42997, 1, 1>>, <<65313, 65338, 1, 32>>, <<66560, 66599, 1, 40>>,
       <<66736, 66771, 1, 40>>, <<66928, 66938, 1, 39>>, <<66940, 66954, 1, 39>>, <<66956, 66962, 1, 39>>,
       <<66964, 66965, 1, 39>>, <<68736, 68786, 1, 64>>, <<71840, 71871, 1, 32>>, <<93760, 93791, 1, 32>>,
       <<125184, 125217, 1, 34>>
    >>

\* the cased characters that are not case-ignorable, as ranges <<lo, hi>>
CASED_RUNS ==
    <<
       <<65, 90>>, <<97, 122>>, <<170, 170>>, <<181, 181>>, <<186, 186>>, <<192, 214>>,
       <<216, 246>>, <<248, 442>>, <<444, 447>>, <<452, 659>>, <<661, 687>>, <<880, 883>>,
       <<886, 887>>, <<891, 893>>, <<895, 895>>, <<902, 902>>, <<904, 906>>, <<908, 908>>,
       <<910, 929>>, <<931, 1013>>, <<1015, 1153>>, <<1162, 1327>>, <<1329, 1366>>, <<1376, 1416>>,
       <<4256, 4293>>, <<4295, 4295>>, <<4301, 4301>>, <<4304, 4346>>, <<4349, 4351>>, <<5024, 5109>>,
       <<5112, 5117>>, <<7296, 7304>>, <<7312, 7354>>, <<7357, 7359>>, <<7424, 7467>>, <<7531, 7543>>,
       <<7545, 7578>>, <<7680, 7957>>, <<7960, 7965>>, <<7968, 8005>>, <<8008, 8013>>, <<8016, 8023>>,
       <<8025, 8025>>, <<8027, 8027>>, <<8029, 8029>>, <<8031, 8061>>, <<8064, 8116>>, <<8118, 8124>>,
       <<8126, 8126>>, <<8130, 8132>>, <<8134, 8140>>, <<8144, 8147>>, <<8150, 8155>>, <<8160, 8172>>,
       <<8178, 8180>>, <<8182, 8188>>, <<8450, 8450>>, <<8455, 8455>>, <<8458, 8467>>, <<8469, 8469>>,
       <<8473, 8477>>, <<8484, 8484>>, <<8486, 8486>>, <<8488, 8488>>, <<8490, 8493>>, <<8495, 8500>>,
       <<8505, 8505>>, <<8508, 8511>>, <<8517, 8521>>, <<8526, 8526>>, <<8544, 8575>>, <<8579, 8580>>,
       <<9398, 9449>>, <<11264, 11387>>, <<11390, 11492>>, <<11499, 11502>>, <<11506, 11507>>, <<11520, 11557>>,
       <<11559, 11559>>, <<11565, 11565>>, <<42560, 42605>>, <<42624, 42651>>, <<42786, 42863>>, <<42865, 42887>>,
       <<42891, 42894>>, <<42896, 42954>>, <<42960, 42961>>, <<42963, 42963>>, <<42965, 42969>>, <<42997, 42998>>,
       <<43002, 43002>>, <<43824, 43866>>, <<43872, 43880>>, <<43888, 43967>>, <<64256, 64262>>, <<64275, 64279>>,
       <<65313, 65338>>, <<65345, 65370>>, <<66560, 66639>>, <<66736, 66771>>, <<66776, 66811>>, <<66928, 66938>>,
       <<66940, 66954>>, <<66956, 66962>>, <<66964, 66965>>, <<66967, 66977>>, <<66979, 66993>>, <<66995, 67001>>,
       <<67003, 67004>>, <<68736, 68786>>, <<68800, 68850>>, <<71840, 71903>>, <<93760, 93823>>, <<119808, 119892>>,
       <<119894, 119964>>, <<119966, 119967>>, <<119970, 119970>>, <<119973, 119974>>, <<119977, 119980>>, <<119982, 119993>>,
       <<119995, 119995>>, <<119997, 120003>>, <<120005, 120069>>, <<120071, 120074>>, <<120077, 120084>>, <<120086, 120092>>,
       <<120094, 120121>>, <<120123, 120126>>, <<120128, 120132>>, <<120134, 120134>>, <<120138, 120144>>, <<120146, 120485>>,
       <<120488, 120512>>, <<120514, 120538>>, <<120540, 120570>>, <<120572, 120596>>, <<120598, 120628>>, <<120630, 120654>>,
       <<120656, 120686>>, <<120688, 120712>>, <<120714, 120744>>, <<120746, 120770>>, <<120772, 120779>>, <<122624, 122633>>,
       <<122635, 122654>>, <<125184, 125251>>, <<127280, 127305>>, <<127312, 127337>>, <<127344, 127369>>
    >>

\* the case-ignorable characters, as ranges <<lo, hi>>
CASE_IGNORABLE_RUNS ==
    <<
       <<39, 39>>, <<46, 46>>, <<58, 58>>, <<94, 94>>, <<96, 96>>, <<168, 168>>,
       <<173, 173>>, <<175, 175>>, <<180, 180>>, <<183, 184>>, <<688, 879>>, <<884, 885>>,
       <<890, 890>>, <<900, 901>>, <<903, 903>>, <<1155, 1161>>, <<1369, 1369>>, <<1375, 1375>>,
       <<1425, 1469>>, <<1471, 1471>>, <<1473, 1474>>, <<1476, 1477>>, <<1479, 1479>>, <<1524, 1524>>,
       <<1536, 1541>>, <<1552, 1562>>, <<1564, 1564>>, <<1600, 1600>>, <<1611, 1631>>, <<1648, 1648>>,
       <<1750, 1757>>, <<1759, 1768>>, <<1770, 1773>>, <<1807, 1807>>, <<1809, 1809>>, <<1840, 1866>>,
       <<1958, 1968>>, <<2027, 2037>>, <<2042, 2042>>, <<2045, 2045>>, <<2070, 2093>>, <<2137, 2139>>,
       <<2184, 2184>>, <<2192, 2193>>, <<2200, 2207>>, <<2249, 2306>>, <<2362, 2362>>, <<2364, 2364>>,
       <<2369, 2376>>, <<2381, 2381>>, <<2385, 2391>>, <<2402, 2403>>, <<2417, 2417>>, <<2433, 2433>>,
       <<2492, 2492>>, <<2497, 2500>>, <<2509, 2509>>, <<2530, 2531>>, <<2558, 2558>>, <<2561, 2562>>,
       <<2620, 2620>>, <<2625, 2626>>, <<2631, 2632>>, <<2635, 2637>>, <<2641, 2641>>, <<2672, 2673>>,
       <<2677, 2677>>, <<2689, 2690>>, <<2748, 2748>>, <<2753, 2757>>, <<2759, 2760>>, <<2765, 2765>>,
       <<2786, 2787>>, <<2810, 2815>>, <<2817, 2817>>, <<2876, 2876>>, <<2879, 2879>>, <<2881, 2884>>,
       <<2893, 2893>>, <<2901, 2902>>, <<2914, 2915>>, <<2946, 2946>>, <<3008, 3008>>, <<3021, 3021>>,
       <<3072, 3072>>, <<3076, 3076>>, <<3132, 3132>>, <<3134, 3136>>, <<3142, 3144>>, <<3146, 3149>>,
       <<3157, 3158>>, <<3170, 3171>>, <<3201, 3201>>, <<3260, 3260>>, <<3263, 3263>>, <<3270, 3270>>,
       <<3276, 3277>>, <<3298, 3299>>, <<3328, 3329>>, <<3387, 3388>>, <<3393, 3396>>, <<3405, 3405>>,
       <<3426, 3427>>, <<3457, 3457>>, <<3530, 3530>>, <<3538, 3540>>, <<3542, 3542>>, <<3633, 3633>>,
       <<3636, 3642>>, <<3654, 3662>>, <<3761, 3761>>, <<3764, 3772>>, <<3782, 3782>>, <<3784, 3789>>,
       <<3864, 3865>>, <<3893, 3893>>, <<3895, 3895>>, <<3897, 3897>>, <<3953, 3966>>, <<3968, 3972>>,
       <<3974, 3975>>, <<3981, 3991>>, <<3993, 4028>>, <<4038, 4038>>, <<4141, 4144>>, <<4146, 4151>>,
       <<4153, 4154>>, <<4157, 4158>>, <<4184, 4185>>, <<4190, 4192>>, <<4209, 4212>>, <<4226, 4226>>,
       <<4229, 4230>>, <<4237, 4237>>, <<4253, 4253>>, <<4348, 4348>>, <<4957, 4959>>, <<5906, 5908>>,
       <<5938, 5939>>, <<5970, 5971>>, <<6002, 6003>>, <<6068, 6069>>, <<6071, 6077>>, <<6086, 6086>>,
       <<6089, 6099>>, <<6103, 6103>>, <<6109, 6109>>, <<6155, 6159>>, <<6211, 6211>>, <<6277, 6278>>,
       <<6313, 6313>>, <<6432, 6434>>, <<6439, 6440>>, <<6450, 6450>>, <<6457, 6459>>, <<6679, 6680>>,
       <<6683, 6683>>, <<6742, 6742>>, <<6744, 6750>>, <<6752, 6752>>, <<6754, 6754>>, <<6757, 6764>>,
       <<6771, 6780>>, <<6783, 6783>>, <<6823, 6823>>, <<6832, 6862>>, <<6912, 6915>>, <<6964, 6964>>,
       <<6966, 6970>>, <<6972, 6972>>, <<6978, 6978>>, <<7019, 7027>>, <<7040, 7041>>, <<7074, 7077>>,
       <<7080, 7081>>, <<7083, 7085>>, <<7142, 7142>>, <<7144, 7145>>, <<7149, 7149>>, <<7151, 7153>>,
       <<7212, 7219>>, <<7222, 7223>>, <<7288, 7293>>, <<7376, 7378>>, <<7380, 7392>>, <<7394, 7400>>,
       <<7405, 7405>>, <<7412, 7412>>, <<7416, 7417>>, <<7468, 7530>>, <<7544, 7544>>, <<7579, 7679>>,
       <<8125, 8125>>, <<8127, 8129>>, <<8141, 8143>>, <<8157, 8159>>, <<8173, 8175>>, <<8189, 8190>>,
       <<8203, 8207>>, <<8216, 8217>>, <<8228, 8228>>, <<8231, 8231>>, <<8234, 8238>>, <<8288, 8292>>,
       <<8294, 8303>>, <<8305, 8305>>, <<8319, 8319>>, <<8336, 8348>>, <<8400, 8432>>, <<11388, 11389>>,
       <<11503, 11505>>, <<11631, 11631>>, <<11647, 11647>>, <<11744, 11775>>, <<11823, 11823>>, <<12293, 12293>>,
       <<12330, 12333>>, <<12337, 12341>>, <<12347, 12347>>, <<12441, 12446>>, <<12540, 12542>>, <<40981, 40981>>,
       <<42232, 42237>>, <<42508, 42508>>, <<42607, 42610>>, <<42612, 42621>>, <<42623, 42623>>, <<42652, 42655>>,
       <<42736, 42737>>, <<42752, 42785>>, <<42864, 42864>>, <<42888, 42890>>, <<42994, 42996>>, <<43000, 43001>>,
       <<43010, 43010>>, <<43014, 43014>>, <<43019, 43019>>, <<43045, 43046>>, <<43052, 43052>>, <<43204, 43205>>,
       <<43232, 43249>>, <<43263, 43263>>, <<43302, 43309>>, <<43335, 43345>>, <<43392, 43394>>, <<43443, 43443>>,
       <<43446, 43449>>, <<43452, 43453>>, <<43471, 43471>>, <<43493, 43494>>, <<43561, 43566>>, <<43569, 43570>>,
       <<43573, 43574>>, <<43587, 43587>>, <<43596, 43596>>, <<43632, 43632>>, <<43644, 43644>>, <<43696, 43696>>,
       <<43698, 43700>>, <<43703, 43704>>, <<43710, 43711>>, <<43713, 43713>>, <<43741, 43741>>, <<43756, 43757>>,
       <<43763, 43764>>, <<43766, 43766>>, <<43867, 43871>>, <<43881, 43883>>, <<44005, 44005>>, <<44008, 44008>>,
       <<44013, 44013>>, <<64286, 64286>>, <<64434, 64450>>, <<65024, 65039>>, <<65043, 65043>>, <<65056, 65071>>,
       <<65106, 65106>>, <<65109, 65109>>, <<65279, 65279>>, <<65287, 65287>>, <<65294, 65294>>, <<65306, 65306>>,
       <<65342, 65342>>, <<65344, 65344>>, <<65392, 65392>>, <<65438, 65439>>, <<65507, 65507>>, <<65529, 65531>>,
       <<66045, 66045>>, <<66272, 66272>>, <<66422, 66426>>, <<67456, 67461>>, <<67463, 67504>>, <<67506, 67514>>,
       <<68097, 68099>>, <<68101, 68102>>, <<68108, 68111>>, <<68152, 68154>>, <<68159, 68159>>, <<68325, 68326>>,
       <<68900, 68903>>, <<69291, 69292>>, <<69446, 69456>>, <<69506, 69509>>, <<69633, 69633>>, <<69688, 69702>>,
       <<69744, 69744>>, <<69747, 69748>>, <<69759, 69761>>, <<69811, 69814>>, <<69817, 69818>>, <<69821, 69821>>,
       <<69826, 69826>>, <<69837, 69837>>, <<69888, 69890>>, <<69927, 69931>>, <<69933, 69940>>, <<70003, 70003>>,
       <<70016, 70017>>, <<70070, 70078>>, <<70089, 70092>>, <<70095, 70095>>, <<70191, 70193>>, <<70196, 70196>>,
       <<70198, 70199>>, <<70206, 70206>>, <<70367, 70367>>, <<70371, 70378>>, <<70400, 70401>>, <<70459, 70460>>,
       <<70464, 70464>>, <<70502, 70508>>, <<70512, 70516>>, <<70712, 70719>>, <<70722, 70724>>, <<70726, 70726>>,
       <<70750, 70750>>, <<70835, 70840>>, <<70842, 70842>>, <<70847, 70848>>, <<70850, 70851>>, <<71090, 71093>>,
       <<71100, 71101>>, <<71103, 71104>>, <<71132, 71133>>, <<71219, 71226>>, <<71229, 71229>>, <<71231, 71232>>,
       <<71339, 71339>>, <<71341, 71341>>, <<71344, 71349>>, <<71351, 71351>>, <<71453, 71455>>, <<71458, 71461>>,
       <<71463, 71467>>, <<71727, 71735>>, <<71737, 71738>>, <<71995, 71996>>, <<71998, 71998>>, <<72003, 72003>>,
       <<72148, 72151>>, <<72154, 72155>>, <<72160, 72160>>, <<72193, 72202>>, <<72243, 72248>>, <<72251, 72254>>,
       <<72263, 72263>>, <<72273, 72278>>, <<72281, 72283>>, <<72330, 72342>>, <<72344, 72345>>, <<72752, 72758>>,
       <<72760, 72765>>, <<72767, 72767>>, <<72850, 72871>>, <<72874, 72880>>, <<72882, 72883>>, <<72885, 72886>>,
       <<73009, 73014>>, <<73018, 73018>>, <<73020, 73021>>, <<73023, 73029>>, <<73031, 73031>>, <<73104, 73105>>,
       <<73109, 73109>>, <<73111, 73111>>, <<73459, 73460>>, <<78896, 78904>>, <<92912, 92916>>, <<92976, 92982>>,
       <<92992, 92995>>, <<94031, 94031>>, <<94095, 94111>>, <<94176, 94177>>, <<94179, 94180>>, <<110576, 110579>>,
       <<110581, 110587>>, <<110589, 110590>>, <<113821, 113822>>, <<113824, 113827>>, <<118528, 118573>>, <<118576, 118598>>,
       <<119143, 119145>>, <<119155, 119170>>, <<119173, 119179>>, <<119210, 119213>>, <<119362, 119364>>, <<121344, 121398>>,
       <<121403, 121452>>, <<121461, 121461>>, <<121476, 121476>>, <<121499, 121503>>, <<121505, 121519>>, <<122880, 122886>>,
       <<122888, 122904>>, <<122907, 122913>>, <<122915, 122916>>, <<122918, 122922>>, <<123184, 123197>>, <<123566, 123566>>,
       <<123628, 123631>>, <<125136, 125142>>, <<125252, 125259>>, <<127995, 127999>>, <<917505, 917505>>, <<917536, 917631>>,
       <<917760, 917999>>
    >>

\* the characters str.isprintable() is true of, as ranges <<lo, hi>>
PRINTABLE_RUNS ==
    <<
       <<32, 126>>, <<161, 172>>, <<174, 887>>, <<890, 895>>, <<900, 906>>, <<908, 908>>,
       <<910, 929>>, <<931, 1327>>, <<1329, 1366>>, <<1369, 1418>>, <<1421, 1423>>, <<1425, 1479>>,
       <<1488, 1514>>, <<1519, 1524>>, <<1542, 1563>>, <<1565, 1756>>, <<1758, 1805>>, <<1808, 1866>>,
       <<1869, 1969>>, <<1984, 2042>>, <<2045, 2093>>, <<2096, 2110>>, <<2112, 2139>>, <<2142, 2142>>,
       <<2144, 2154>>, <<2160, 2190>>, <<2200, 2273>>, <<2275, 2435>>, <<2437, 2444>>, <<2447, 2448>>,
       <<2451, 2472>>, <<2474, 2480>>, <<2482, 2482>>, <<2486, 2489>>, <<2492, 2500>>, <<2503, 2504>>,
       <<2507, 2510>>, <<2519, 2519>>, <<2524, 2525>>, <<2527, 2531>>, <<2534, 2558>>, <<2561, 2563>>,
       <<2565, 2570>>, <<2575, 2576>>, <<2579, 2600>>, <<2602, 2608>>, <<2610, 2611>>, <<2613, 2614>>,
       <<2616, 2617>>, <<2620, 2620>>, <<2622, 2626>>, <<2631, 2632>>, <<2635, 2637>>, <<2641, 2641>>,
       <<2649, 2652>>, <<2654, 2654>>, <<2662, 2678>>, <<2689, 2691>>, <<2693, 2701>>, <<2703, 2705>>,
       <<2707, 2728>>, <<2730, 2736>>, <<2738, 2739>>, <<2741, 2745>>, <<2748, 2757>>, <<2759, 2761>>,
       <<2763, 2765>>, <<2768, 2768>>, <<2784, 2787>>, <<2790, 2801>>, <<2809, 2815>>, <<2817, 2819>>,
       <<2821, 2828>>, <<2831, 2832>>, <<2835, 2856>>, <<2858, 2864>>, <<2866, 2867>>, <<2869, 2873>>,
       <<2876, 2884>>, <<2887, 2888>>, <<2891, 2893>>, <<2901, 2903>>, <<2908, 2909>>, <<2911, 2915>>,
       <<2918, 2935>>, <<2946, 2947>>, <<2949, 2954>>, <<2958, 2960>>, <<2962, 2965>>, <<2969, 2970>>,
       <<2972, 2972>>, <<2974, 2975>>, <<2979, 2980>>, <<2984, 2986>>, <<2990, 3001>>, <<3006, 3010>>,
       <<3014, 3016>>, <<3018, 3021>>, <<3024, 3024>>, <<3031, 3031>>, <<3046, 3066>>, <<3072, 3084>>,
       <<3086, 3088>>, <<3090, 3112>>, <<3114, 3129>>, <<3132, 3140>>, <<3142, 3144>>, <<3146, 3149>>,
       <<3157, 3158>>, <<3160, 3162>>, <<3165, 3165>>, <<3168, 3171>>, <<3174, 3183>>, <<3191, 3212>>,
       <<3214, 3216>>, <<3218, 3240>>, <<3242, 3251>>, <<3253, 3257>>, <<3260, 3268>>, <<3270, 3272>>,
       <<3274, 3277>>, <<3285, 3286>>, <<3293, 3294>>, <<3296, 3299>>, <<3302, 3311>>, <<3313, 3314>>,
       <<3328, 3340>>, <<3342, 3344>>, <<3346, 3396>>, <<3398, 3400>>, <<3402, 3407>>, <<3412, 3427>>,
       <<3430, 3455>>, <<3457, 3459>>, <<3461, 3478>>, <<3482, 3505>>, <<3507, 3515>>, <<3517, 3517>>,
       <<3520, 3526>>, <<3530, 3530>>, <<3535, 3540>>, <<3542, 3542>>, <<3544, 3551>>, <<3558, 3567>>,
       <<3570, 3572>>, <<3585, 3642>>, <<3647, 3675>>, <<3713, 3714>>, <<3716, 3716>>, <<3718, 3722>>,
       <<3724, 3747>>, <<3749, 3749>>, <<3751, 3773>>, <<3776, 3780>>, <<3782, 3782>>, <<3784, 3789>>,
       <<3792, 3801>>, <<3804, 3807>>, <<3840, 3911>>, <<3913, 3948>>, <<3953, 3991>>, <<3993, 4028>>,
       <<4030, 4044>>, <<4046, 4058>>, <<4096, 4293>>, <<4295, 4295>>, <<4301, 4301>>, <<4304, 4680>>,
       <<4682, 4685>>, <<4688, 4694>>, <<4696, 4696>>, <<4698, 4701>>, <<4704, 4744>>, <<4746, 4749>>,
       <<4752, 4784>>, <<4786, 4789>>, <<4792, 4798>>, <<4800, 4800>>, <<4802, 4805>>, <<4808, 4822>>,
       <<4824, 4880>>, <<4882, 4885>>, <<4888, 4954>>, <<4957, 4988>>, <<4992, 5017>>, <<5024, 5109>>,
       <<5112, 5117>>, <<5120, 5759>>, <<5761, 5788>>, <<5792, 5880>>, <<5888, 5909>>, <<5919, 5942>>,
       <<5952, 5971>>, <<5984, 5996>>, <<5998, 6000>>, <<6002, 6003>>, <<6016, 6109>>, <<6112, 6121>>,
       <<6128, 6137>>, <<6144, 6157>>, <<6159, 6169>>, <<6176, 6264>>, <<6272, 6314>>, <<6320, 6389>>,
       <<6400, 6430>>, <<6432, 6443>>, <<6448, 6459>>, <<6464, 6464>>, <<6468, 6509>>, <<6512, 6516>>,
       <<6528, 6571>>, <<6576, 6601>>, <<6608, 6618>>, <<6622, 6683>>, <<6686, 6750>>, <<6752, 6780>>,
       <<6783, 6793>>, <<6800, 6809>>, <<6816, 6829>>, <<6832, 6862>>, <<6912, 6988>>, <<6992, 7038>>,
       <<7040, 7155>>, <<7164, 7223>>, <<7227, 7241>>, <<7245, 7304>>, <<7312, 7354>>, <<7357, 7367>>,
       <<7376, 7418>>, <<7424, 7957>>, <<7960, 7965>>, <<7968, 8005>>, <<8008, 8013>>, <<8016, 8023>>,
       <<8025, 8025>>, <<8027, 8027>>, <<8029, 8029>>, <<8031, 8061>>, <<8064, 8116>>, <<8118, 8132>>,
       <<8134, 8147>>, <<8150, 8155>>, <<8157, 8175>>, <<8178, 8180>>, <<8182, 8190>>, <<8208, 8231>>,
       <<8240, 8286>>, <<8304, 8305>>, <<8308, 8334>>, <<8336, 8348>>, <<8352, 8384>>, <<8400, 8432>>,
       <<8448, 8587>>, <<8592, 9254>>, <<9280, 9290>>, <<9312, 11123>>, <<11126, 11157>>, <<11159, 11507>>,
       <<11513, 11557>>, <<11559, 11559>>, <<11565, 11565>>, <<11568, 11623>>, <<11631, 11632>>, <<11647, 11670>>,
       <<11680, 11686>>, <<11688, 11694>>, <<11696, 11702>>, <<11704, 11710>>, <<11712, 11718>>, <<11720, 11726>>,
       <<11728, 11734>>, <<11736, 11742>>, <<11744, 11869>>, <<11904, 11929>>, <<11931, 12019>>, <<12032, 12245>>,
       <<12272, 12283>>, <<12289, 12351>>, <<12353, 12438>>, <<12441, 12543>>, <<12549, 12591>>, <<12593, 12686>>,
       <<12688, 12771>>, <<12784, 12830>>, <<12832, 42124>>, <<42128, 42182>>, <<42192, 42539>>, <<42560, 42743>>,
       <<42752, 42954>>, <<42960, 42961>>, <<42963, 42963>>, <<42965, 42969>>, <<42994, 43052>>, <<43056, 43065>>,
       <<43072, 43127>>, <<43136, 43205>>, <<43214, 43225>>, <<43232, 43347>>, <<43359, 43388>>, <<43392, 43469>>,
       <<43471, 43481>>, <<43486, 43518>>, <<43520, 43574>>, <<43584, 43597>>, <<43600, 43609>>, <<43612, 43714>>,
       <<43739, 43766>>, <<43777, 43782>>, <<43785, 43790>>, <<43793, 43798>>, <<43808, 43814>>, <<43816, 43822>>,
       <<43824, 43883>>, <<43888, 44013>>, <<44016, 44025>>, <<44032, 55203>>, <<55216, 55238>>, <<55243, 55291>>,
       <<63744, 64109>>, <<64112, 64217>>, <<64256, 64262>>, <<64275, 64279>>, <<64285, 64310>>, <<64312, 64316>>,
       <<64318, 64318>>, <<64320, 64321>>, <<64323, 64324>>, <<64326, 64450>>, <<64467, 64911>>, <<64914, 64967>>,
       <<64975, 64975>>, <<65008, 65049>>, <<65056, 65106>>, <<65108, 65126>>, <<65128, 65131>>, <<65136, 65140>>,
       <<65142, 65276>>, <<65281, 65470>>, <<65474, 65479>>, <<65482, 65487>>, <<65490, 65495>>, <<65498, 65500>>,
       <<65504, 65510>>, <<65512, 65518>>, <<65532, 65533>>, <<65536, 65547>>, <<65549, 65574>>, <<65576, 65594>>,
       <<65596, 65597>>, <<65599, 65613>>, <<65616, 65629>>, <<65664, 65786>>, <<65792, 65794>>, <<65799, 65843>>,
       <<65847, 65934>>, <<65936, 65948>>, <<65952, 65952>>, <<66000, 66045>>, <<66176, 66204>>, <<66208, 66256>>,
       <<66272, 66299>>, <<66304, 66339>>, <<66349, 66378>>, <<66384, 66426>>, <<66432, 66461>>, <<66463, 66499>>,
       <<66504, 66517>>, <<66560, 66717>>, <<66720, 66729>>, <<66736, 66771>>, <<66776, 66811>>, <<66816, 66855>>,
       <<66864, 66915>>, <<66927, 66938>>, <<66940, 66954>>, <<66956, 66962>>, <<66964, 66965>>, <<66967, 66977>>,
       <<66979, 66993>>, <<66995, 67001>>, <<67003, 67004>>, <<67072, 67382>>, <<67392, 67413>>, <<67424, 67431>>,
       <<67456, 67461>>, <<67463, 67504>>, <<67506, 67514>>, <<67584, 67589>>, <<67592, 67592>>, <<67594, 67637>>,
       <<67639, 67640>>, <<67644, 67644>>, <<67647, 67669>>, <<67671, 67742>>, <<67751, 67759>>, <<67808, 67826>>,
       <<67828, 67829>>, <<67835, 67867>>, <<67871, 67897>>, <<67903, 67903>>, <<67968, 68023>>, <<68028, 68047>>,
       <<68050, 68099>>, <<68101, 68102>>, <<68108, 68115>>, <<68117, 68119>>, <<68121, 68149>>, <<68152, 68154>>,
       <<68159, 68168>>, <<68176, 68184>>, <<68192, 68255>>, <<68288, 68326>>, <<68331, 68342>>, <<68352, 68405>>,
       <<68409, 68437>>, <<68440, 68466>>, <<68472, 68497>>, <<68505, 68508>>, <<68521, 68527>>, <<68608, 68680>>,
       <<68736, 68786>>, <<68800, 68850>>, <<68858, 68903>>, <<68912, 68921>>, <<69216, 69246>>, <<69248, 69289>>,
       <<69291, 69293>>, <<69296, 69297>>, <<69376, 69415>>, <<69424, 69465>>, <<69488, 69513>>, <<69552, 69579>>,
       <<69600, 69622>>, <<69632, 69709>>, <<69714, 69749>>, <<69759, 69820>>, <<69822, 69826>>, <<69840, 69864>>,
       <<69872, 69881>>, <<69888, 69940>>, <<69942, 69959>>, <<69968, 70006>>, <<70016, 70111>>, <<70113, 70132>>,
       <<70144, 70161>>, <<70163, 70206>>, <<70272, 70278>>, <<70280, 70280>>, <<70282, 70285>>, <<70287, 70301>>,
       <<70303, 70313>>, <<70320, 70378>>, <<70384, 70393>>, <<70400, 70403>>, <<70405, 70412>>, <<70415, 70416>>,
       <<70419, 70440>>, <<70442, 70448>>, <<70450, 70451>>, <<70453, 70457>>, <<70459, 70468>>, <<70471, 70472>>,
       <<70475, 70477>>, <<70480, 70480>>, <<70487, 70487>>, <<70493, 70499>>, <<70502, 70508>>, <<70512, 70516>>,
       <<70656, 70747>>, <<70749, 70753>>, <<70784, 70855>>, <<70864, 70873>>, <<71040, 71093>>, <<71096, 71133>>,
       <<71168, 71236>>, <<71248, 71257>>, <<71264, 71276>>, <<71296, 71353>>, <<71360, 71369>>, <<71424, 71450>>,
       <<71453, 71467>>, <<71472, 71494>>, <<71680, 71739>>, <<71840, 71922>>, <<71935, 71942>>, <<71945, 71945>>,
       <<71948, 71955>>, <<71957, 71958>>, <<71960, 71989>>, <<71991, 71992>>, <<71995, 72006>>, <<72016, 72025>>,
       <<72096, 72103>>, <<72106, 72151>>, <<72154, 72164>>, <<72192, 72263>>, <<72272, 72354>>, <<72368, 72440>>,
       <<72704, 72712>>, <<72714, 72758>>, <<72760, 72773>>, <<72784, 72812>>, <<72816, 72847>>, <<72850, 72871>>,
       <<72873, 72886>>, <<72960, 72966>>, <<72968, 72969>>, <<72971, 73014>>, <<73018, 73018>>, <<73020, 73021>>,
       <<73023, 73031>>, <<73040, 73049>>, <<73056, 73061>>, <<73063, 73064>>, <<73066, 73102>>, <<73104, 73105>>,
       <<73107, 73112>>, <<73120, 73129>>, <<73440, 73464>>, <<73648, 73648>>, <<73664, 73713>>, <<73727, 74649>>,
       <<74752, 74862>>, <<74864, 74868>>, <<74880, 75075>>, <<77712, 77810>>, <<77824, 78894>>, <<82944, 83526>>,
       <<92160, 92728>>, <<92736, 92766>>, <<92768, 92777>>, <<92782, 92862>>, <<92864, 92873>>, <<92880, 92909>>,
       <<92912, 92917>>, <<92928, 92997>>, <<93008, 93017>>, <<93019, 93025>>, <<93027, 93047>>, <<93053, 93071>>,
       <<93760, 93850>>, <<93952, 94026>>, <<94031, 94087>>, <<94095, 94111>>, <<94176, 94180>>, <<94192, 94193>>,
       <<94208, 100343>>, <<100352, 101589>>, <<101632, 101640>>, <<110576, 110579>>, <<110581, 110587>>, <<110589, 110590>>,
       <<110592, 110882>>, <<110928, 110930>>, <<110948, 110951>>, <<110960, 111355>>, <<113664, 113770>>, <<113776, 113788>>,
       <<113792, 113800>>, <<113808, 113817>>, <<113820, 113823>>, <<118528, 118573>>, <<118576, 118598>>, <<118608, 118723>>,
       <<118784, 119029>>, <<119040, 119078>>, <<119081, 119154>>, <<119163, 119274>>, <<119296, 119365>>, <<119520, 119539>>,
       <<119552, 119638>>, <<119648, 119672>>, <<119808, 119892>>, <<119894, 119964>>, <<119966, 119967>>, <<119970, 119970>>,
       <<119973, 119974>>, <<119977, 119980>>, <<119982, 119993>>, <<119995, 119995>>, <<119997, 120003>>, <<120005, 120069>>,
       <<120071, 120074>>, <<120077, 120084>>, <<120086, 120092>>, <<120094, 120121>>, <<120123, 120126>>, <<120128, 120132>>,
       <<120134, 120134>>, <<120138, 120144>>, <<120146, 120485>>, <<120488, 120779>>, <<120782, 121483>>, <<121499, 121503>>,
       <<121505, 121519>>, <<122624, 122654>>, <<122880, 122886>>, <<122888, 122904>>, <<122907, 122913>>, <<122915, 122916>>,
       <<122918, 122922>>, <<123136, 123180>>, <<123184, 123197>>, <<123200, 123209>>, <<123214, 123215>>, <<123536, 123566>>,
       <<123584, 123641>>, <<123647, 123647>>, <<124896, 124902>>, <<124904, 124907>>, <<124909, 124910>>, <<124912, 124926>>,
       <<124928, 125124>>, <<125127, 125142>>, <<125184, 125259>>, <<125264, 125273>>, <<125278, 125279>>, <<126065, 126132>>,
       <<126209, 126269>>, <<126464, 126467>>, <<126469, 126495>>, <<126497, 126498>>, <<126500, 126500>>, <<126503, 126503>>,
       <<126505, 126514>>, <<126516, 126519>>, <<126521, 126521>>, <<126523, 126523>>, <<126530, 126530>>, <<126535, 126535>>,
       <<126537, 126537>>, <<126539, 126539>>, <<126541, 126543>>, <<126545, 126546>>, <<126548, 126548>>, <<126551, 126551>>,
       <<126553, 126553>>, <<126555, 126555>>, <<126557, 126557>>, <<126559, 126559>>, <<126561, 126562>>, <<126564, 126564>>,
       <<126567, 126570>>, <<126572, 126578>>, <<126580, 126583>>, <<126585, 126588>>, <<126590, 126590>>, <<126592, 126601>>,
       <<126603, 126619>>, <<126625, 126627>>, <<126629, 126633>>, <<126635, 126651>>, <<126704, 126705>>, <<126976, 127019>>,
       <<127024, 127123>>, <<127136, 127150>>, <<127153, 127167>>, <<127169, 127183>>, <<127185, 127221>>, <<127232, 127405>>,
       <<127462, 127490>>, <<127504, 127547>>, <<127552, 127560>>, <<127568, 127569>>, <<127584, 127589>>, <<127744, 128727>>,
       <<128733, 128748>>, <<128752, 128764>>, <<128768, 128883>>, <<128896, 128984>>, <<128992, 129003>>, <<129008, 129008>>,
       <<129024, 129035>>, <<129040, 129095>>, <<129104, 129113>>, <<129120, 129159>>, <<129168, 129197>>, <<129200, 129201>>,
       <<129280, 129619>>, <<129632, 129645>>, <<129648, 129652>>, <<129656, 129660>>, <<129664, 129670>>, <<129680, 129708>>,
       <<129712, 129722>>, <<129728, 129733>>, <<129744, 129753>>, <<129760, 129767>>, <<129776, 129782>>, <<129792, 129938>>,
       <<129940, 129994>>, <<130032, 130041>>, <<131072, 173791>>, <<173824, 177976>>, <<177984, 178205>>, <<178208, 183969>>,
       <<183984, 191456>>, <<194560, 195101>>, <<196608, 201546>>, <<917760, 917999>>
    >>

\* c lies in one of the ranges <<lo, hi>>
InRuns(c, ranges) ==
    \E i \in 1..Len(ranges) : ranges[i][1] <= c /\ c <= ranges[i][2]

\* str.isspace(), str.isprintable(), the \d of a str pattern
IsSpace(c) == c \in WHITESPACE
IsPrintable(c) == InRuns(c, PRINTABLE_RUNS)
IsDecimal(c) == InRuns(c, DECIMAL_RUNS)

\* the two tests str.lower() makes around a capital sigma; the second is
\* made only on characters the first is false of
IsCaseIgnorable(c) == InRuns(c, CASE_IGNORABLE_RUNS)
IsCased(c) == InRuns(c, CASED_RUNS)

RECURSIVE Flatten(_)
Flatten(ss) == IF ss = <<>> THEN <<>> ELSE Head(ss) \o Flatten(Tail(ss))

RECURSIVE Join(_, _)
Join(sep, ss) ==
    IF ss = <<>> THEN <<>>
    ELSE IF Len(ss) = 1 THEN ss[1]
    ELSE ss[1] \o sep \o Join(sep, Tail(ss))

\* str.lower() of one character other than the capital sigma: LOWER_RUNS
\* holds <<lo, hi, step, delta>> (of ASCII, the first run); U+0130 alone has
\* an image of two characters
LowerChar(c) ==
    IF c < 128 THEN <<IF 65 <= c /\ c <= 90 THEN c + 32 ELSE c>>
    ELSE IF c = 304 THEN <<105, 775>>
    ELSE LET hit == {i \in 1..Len(LOWER_RUNS) :
                        /\ LOWER_RUNS[i][1] <= c
                        /\ c <= LOWER_RUNS[i][2]
                        /\ (c - LOWER_RUNS[i][1]) % LOWER_RUNS[i][3] = 0}
         IN IF hit = {} THEN <<c>>
            ELSE <<c + LOWER_RUNS[CHOOSE i \in hit : TRUE][4]>>

\* the capital sigma s[i] ends a word: a cased character comes before it,
\* none after it, case-ignorable characters skipped
FinalSigma(s, i) ==
    LET before == {j \in 1..(i - 1) : ~IsCaseIgnorable(s[j])}
        after  == {j \in (i + 1)..Len(s) : ~IsCaseIgnorable(s[j])}
    IN /\ before # {}
       /\ IsCased(s[CHOOSE j \in before : \A k \in before : k <= j])
       /\ \/ after = {}
          \/ ~IsCased(s[CHOOSE j \in after : \A k \in after : j <= k])

\* str.lower()
lower_str(s) ==
    Flatten([i \in 1..Len(s) |->
                IF s[i] = 931
                THEN (IF FinalSigma(s, i) THEN <<962>> ELSE <<963>>)
                ELSE LowerChar(s[i])])

\* str.strip()
strip(s) ==
    LET keep == {i \in 1..Len(s) : ~IsSpace(s[i])}
    IN IF keep = {} THEN <<>>
       ELSE LET a == CHOOSE i \in keep : \A j \in keep : i <= j
                b == CHOOSE i \in keep : \A j \in keep : j <= i
            IN SubSeq(s, a, b)

\* `c in s` for one character c
Contains(s, c) == \E i \in 1..Len(s) : s[i] = c

\* re.search(r"\d", s)
HasDigit(s) == \E i \in 1..Len(s) : IsDecimal(s[i])

\* the characters "0".."9", "a".."f"
HEX == <<48, 49, 50, 51, 52, 53, 54, 55, 56, 57, 97, 98, 99, 100, 101, 102>>

\* the decimal digits ds as text
DigitsToStr(ds) == [i \in 1..Len(ds) |-> HEX[ds[i] + 1]]

\* n in hexadecimal, `width` characters
RECURSIVE Hex(_, _)
Hex(n, width) ==
    IF width = 0 THEN <<>>
    ELSE Hex(n \div 16, width - 1) \o <<HEX[(n % 16) + 1]>>

RECURSIVE NatDigits(_)
NatDigits(n) ==
    IF n < 10 THEN <<n>> ELSE Append(NatDigits(n \div 10), n % 10)

\* `count` zeros
Zeros(count) == [i \in 1..count |-> 48]

(***************************************************************************)
(* JSON values and Python dicts.  A value is a record [t, v], t the Python *)
(* type.  An int is its sign and its decimal digits.  A float is the       *)
(* sign, the digits of its shortest decimal form and the place of the      *)
(* point (the value is 0.d1d2...dn * 10^decpt; 6500.5 has digits 65005     *)
(* and decpt 4), or one of nan and inf.                                    *)
(***************************************************************************)
JStr(s)  == [t |-> "str",  v |-> s]
JInt(n)  == [t |-> "int",  v |-> [neg |-> n < 0,
                                  digits |-> NatDigits(IF n < 0 THEN 0 - n ELSE n)]]
JBigInt(neg, digits) == [t |-> "int", v |-> [neg |-> neg, digits |-> digits]]
JFloat(neg, digits, decpt) ==
    [t |-> "float", v |-> [kind |-> "finite", neg |-> neg,
                           digits |-> digits, decpt |-> decpt]]
JNaN == [t |-> "float", v |-> [kind |-> "nan", neg |-> FALSE,
                                digits |-> <<0>>, decpt |-> 1]]
JInf(neg) == [t |-> "float", v |-> [kind |-> "inf", neg |-> neg,
                                     digits |-> <<0>>, decpt |-> 1]]
JBool(b) == [t |-> "bool", v |-> b]
JNull    == [t |-> "null", v |-> <<>>]
JList(xs) == [t |-> "list", v |-> xs]
\* a dict is the sequence of its <<key, value>> items, in insertion order
JDict(items) == [t |-> "dict", v |-> items]

\* Python None, and every other falsy key
None == <<>>

\* d[k] = v on a dict held as a sequence of items: an existing key keeps its
\* place and takes the new value, a new key goes last
DictSet(d, k, v) ==
    IF \E i \in 1..Len(d) : d[i][1] = k
    THEN [i \in 1..Len(d) |-> IF d[i][1] = k THEN <<k, v>> ELSE d[i]]
    ELSE Append(d, <<k, v>>)

\* d.get(k, default)
DictGet(d, k, default) ==
    IF \E i \in 1..Len(d) : d[i][1] = k
    THEN d[CHOOSE i \in 1..Len(d) : d[i][1] = k][2]
    ELSE default

\* list(d.values())
DictValues(d) == [i \in 1..Len(d) |-> d[i][2]]

\* str(n) for an int
IntToStr(n) == (IF n.neg THEN <<45>> ELSE <<>>) \o DigitsToStr(n.digits)

\* repr(x) for a float: the shortest digits that round-trip, in exponent
\* form when the point lies more than 16 places right or 4 or more places
\* left of the first digit
FloatToStr(x) ==
    LET sign == IF x.neg THEN <<45>> ELSE <<>>
        ds   == DigitsToStr(x.digits)
        n    == Len(ds)
        e    == x.decpt - 1
        mag  == IF e < 0 THEN 0 - e ELSE e
        exp  == (IF mag < 10 THEN <<48>> ELSE <<>>) \o DigitsToStr(NatDigits(mag))
    IN CASE x.kind = "nan" -> <<110, 97, 110>>
         [] x.kind = "inf" -> sign \o <<105, 110, 102>>
         [] OTHER ->
              sign \o
              (IF x.decpt <= -4 \/ x.decpt > 16
               THEN <<ds[1]>>
                    \o (IF n > 1 THEN <<46>> \o SubSeq(ds, 2, n) ELSE <<>>)
                    \o <<101, IF e < 0 THEN 45 ELSE 43>> \o exp
               ELSE IF x.decpt <= 0
               THEN <<48, 46>> \o Zeros(0 - x.decpt) \o ds
               ELSE IF x.decpt >= n
               THEN ds \o Zeros(x.decpt - n) \o <<46, 48>>
               ELSE SubSeq(ds, 1, x.decpt) \o <<46>> \o SubSeq(ds, x.decpt + 1, n))

\* repr() of one character of a str quoted with q
ReprChar(c, q) ==
    IF c = 92 \/ c = q THEN <<92, c>>
    ELSE IF c = 9 THEN <<92, 116>>
    ELSE IF c = 10 THEN <<92, 110>>
    ELSE IF c = 13 THEN <<92, 114>>
    ELSE IF IsPrintable(c) THEN <<c>>
    ELSE IF c < 256 THEN <<92, 120>> \o Hex(c, 2)
    ELSE IF c < 65536 THEN <<92, 117>> \o Hex(c, 4)
    ELSE <<92, 85>> \o Hex(c, 8)

\* repr() of a str: double quotes when it holds a single quote and no
\* double quote, single quotes otherwise
ReprStr(s) ==
    LET q == IF Contains(s, 39) /\ ~Contains(s, 34) THEN 34 ELSE 39
    IN <<q>> \o Flatten([i \in 1..Len(s) |-> ReprChar(s[i], q)]) \o <<q>>

\* repr() of a JSON value
RECURSIVE Repr(_)
Repr(x) ==
    CASE x.t = "str"   -> ReprStr(x.v)
      [] x.t = "int"   -> IntToStr(x.v)
      [] x.t = "float" -> FloatToStr(x.v)
      [] x.t = "bool"  -> IF x.v THEN <<84, 114, 117, 101>>
                                 ELSE <<70, 97, 108, 115, 101>>
      [] x.t = "null"  -> <<78, 111, 110, 101>>
      [] x.t = "list"  ->
            <<91>> \o Join(<<44, 32>>, [i \in 1..Len(x.v) |-> Repr(x.v[i])]) \o <<93>>
      [] x.t = "dict"  ->
            <<123>> \o Join(<<44, 32>>,
                        [i \in 1..Len(x.v) |->
                            ReprStr(x.v[i][1]) \o <<58, 32>> \o Repr(x.v[i][2])])
                    \o <<125>>

\* str() of a JSON value; f"{x}" formats the same way
str(x) == IF x.t = "str" THEN x.v ELSE Repr(x)

(***************************************************************************)
(* _walk_for_products                                                      *)
(***************************************************************************)
NAME_KEYS ==
    << <<110, 97, 109, 101>>,   \* "name"
       <<116, 105, 116, 108, 101>>,   \* "title"
       <<112, 114, 111, 100, 117, 99, 116, 110, 97, 109, 101>>,   \* "productname"
       <<112, 114, 111, 100, 117, 99, 116, 95, 110, 97, 109, 101>>,   \* "product_name"
       <<108, 97, 98, 101, 108>>,   \* "label"
       <<115, 107, 117, 95, 110, 97, 109, 101>> >>   \* "sku_name"

PRICE_KEYS ==
    << <<112, 114, 105, 99, 101>>,   \* "price"
       <<115, 97, 108, 101, 112, 114, 105, 99, 101>>,   \* "saleprice"
       <<115, 101, 108, 108, 105, 110, 103, 112, 114, 105, 99, 101>>,   \* "sellingprice"
       <<97, 109, 111, 117, 110, 116>>,   \* "amount"
       <<118, 97, 108, 117, 101>>,   \* "value"
       <<109, 114, 112>>,   \* "mrp"
       <<111, 102, 102, 101, 114, 112, 114, 105, 99, 101>> >>   \* "offerprice"

\* {k.lower(): k for k in obj.keys()}
RECURSIVE LowerDict(_)
LowerDict(items) ==
    IF items = <<>> THEN <<>>
    ELSE LET k == items[Len(items)][1]
         IN DictSet(LowerDict(SubSeq(items, 1, Len(items) - 1)), lower_str(k), k)

\* next(iterator, default): the iterator's first item, whatever it is
next(items, default) == IF items = <<>> THEN default ELSE items[1]

\* next((lower.get(k) for k in keys), None)
FirstKey(lower, keys) ==
    next([i \in 1..Len(keys) |-> DictGet(lower, keys[i], None)], None)

\* lines 109-116: the record an object with both keys adds, if any
Candidate(obj, name_key, price_key, found) ==
    LET name      == strip(str(DictGet(obj.v, name_key, JNull)))
        price_val == DictGet(obj.v, price_key, JNull)
        price     == IF price_val.t \in {"int", "bool", "float"}
                     THEN <<RUPEE>> \o str(price_val)
                     ELSE str(price_val)
    IN IF name # <<>> /\ (Contains(price, RUPEE) \/ HasDigit(price))
       THEN Append(found, <<name, price>>)
       ELSE found

RECURSIVE walk_for_products(_, _), WalkEach(_, _, _)
walk_for_products(obj, found) ==
    IF obj.t = "dict" THEN
        LET lower     == LowerDict(obj.v)
            name_key  == FirstKey(lower, NAME_KEYS)
            price_key == FirstKey(lower, PRICE_KEYS)
            found1    == IF name_key # None /\ price_key # None
                         THEN Candidate(obj, name_key, price_key, found)
                         ELSE found
        IN WalkEach(DictValues(obj.v), 1, found1)
    ELSE IF obj.t = "list" THEN WalkEach(obj.v, 1, found)
    ELSE found

\* the loops of lines 118-119 and 122-123
WalkEach(xs, i, found) ==
    IF i > Len(xs) THEN found
    ELSE WalkEach(xs, i + 1, walk_for_products(xs[i], found))

(***************************************************************************)
(* Rows and DataFrames.  A DataFrame is the sequence of its rows; a row    *)
(* is [date, name, price, other]; NA is a missing cell.  `other` stands    *)
(* for every worksheet column besides Date, Product Name and Price.        *)
(***************************************************************************)
NA == "<NA>"
Today == "2024-05-02"

Row(d, n, p) == [date |-> d, name |-> n, price |-> p, other |-> NA]

\* lines 176-179 (and the Map of lines 89-91): de-dup by name, the last
\* price wins, the name keeps the place of its first occurrence
RECURSIVE DedupByName(_)
DedupByName(cands) ==
    IF cands = <<>> THEN <<>>
    ELSE LET c == cands[Len(cands)]
         IN DictSet(DedupByName(SubSeq(cands, 1, Len(cands) - 1)), c[1], c[2])

\* lines 181-183 / 239-241: the DataFrame of the rows, dated today
MakeDf(rows) == [i \in 1..Len(rows) |-> Row(Today, rows[i][1], rows[i][2])]

\* DataFrame.empty
Empty(d) == d = <<>>


\* DataFrame.drop_duplicates(subset=..., keep=...): rows are compared on the
\* subset's cells; the rows kept stay in their order.  NA cells compare equal.
RECURSIVE RowsAt(_, _, _)
RowsAt(d, idx, i) ==
    IF i > Len(d) THEN <<>>
    ELSE (IF i \in idx THEN <<d[i]>> ELSE <<>>) \o RowsAt(d, idx, i + 1)

\* the cells of row r in the columns of subset
KeyOf(r, subset) == [c \in 1..Len(subset) |-> r[subset[c]]]

drop_duplicates(d, subset, keep) ==
    LET kept == {i \in 1..Len(d) :
                    IF keep = "first"
                    THEN \A j \in 1..(i - 1) : KeyOf(d[j], subset) # KeyOf(d[i], subset)
                    ELSE \A j \in (i + 1)..Len(d) : KeyOf(d[j], subset) # KeyOf(d[i], subset)}
    IN RowsAt(d, kept, 1)

\* subset=["Product Name"] and subset=["Date", "Product Name"]
BY_NAME == <<"name">>
BY_DATE_NAME == <<"date", "name">>

DateNameKey(r) == KeyOf(r, BY_DATE_NAME)

\* lines 181 and 239: .drop_duplicates(subset=["Product Name"])
DropDuplicateNames(d) == drop_duplicates(d, BY_NAME, "first")

\* the DataFrame one scrape attempt returns for the [name, price] pairs found
ScrapedFrame(cands) == DropDuplicateNames(MakeDf(DedupByName(cands)))

(***************************************************************************)
(* The structured-data extraction of scrape_once_json on bounded payloads  *)
(***************************************************************************)
K_name  == <<110, 97, 109, 101>>   \* "name"
K_Name  == <<78, 97, 109, 101>>   \* "Name"
K_title == <<116, 105, 116, 108, 101>>   \* "title"
K_price == <<112, 114, 105, 99, 101>>   \* "price"
K_mrp   == <<109, 114, 112>>   \* "mrp"
K_items == <<105, 116, 101, 109, 115>>   \* "items"
T_coin  == <<49, 103, 32, 71, 111, 108, 100, 32, 67, 111, 105, 110>>   \* "1g Gold Coin"

WalkKeys == {K_name, K_Name, K_title, K_price, K_mrp, K_items}
\* a name, a blank name (a space and a no-break space), the prices 6500,
\* 6500.5, "₹6,500" and "N/A", and null
WalkValues ==
    { JStr(T_coin), JStr(<<32, 160>>), JInt(6500),
      JFloat(FALSE, <<6, 5, 0, 0, 5>>, 4),
      JStr(<<RUPEE, 54, 44, 53, 48, 48>>), JStr(<<78, 47, 65>>), JNull }

\* the items of the objects with k keys
Items(k) ==
    { s \in [1..k -> WalkKeys \X WalkValues] :
        \A i, j \in 1..k : i # j => s[i][1] # s[j][1] }

\* an object alone, in a list, and in a list under a key of another object
Payloads(o) == { o, JList(<<o>>), JDict(<< <<K_items, JList(<<o>>)>> >>) }

\* lines 168-173
RECURSIVE WalkBlobs(_, _, _)
WalkBlobs(blobs, i, found) ==
    IF i > Len(blobs) THEN found
    ELSE WalkBlobs(blobs, i + 1, walk_for_products(blobs[i], found))

WalkIdle ==
    /\ json_bodies = <<>>
    /\ candidates = <<>>
    /\ wdf = <<>>
    /\ wpc = "idle"

\* lines 168-185 of scrape_once_json
ExtractJson ==
    /\ wpc = "call"
    /\ candidates' = WalkBlobs(json_bodies, 1, <<>>)
    /\ wdf' = ScrapedFrame(candidates')
    /\ wpc' = "done"
    /\ UNCHANGED <<json_bodies, mvars, svars>>

InitWalk ==
    /\ \E k \in 0..MaxKeys : \E items \in Items(k) :
         \E b \in Payloads(JDict(items)) : json_bodies = <<b>>
    /\ candidates = <<>>
    /\ wdf = <<>>
    /\ wpc = "call"

(***************************************************************************)
(* The worksheet and upsert_sheet                                          *)
(***************************************************************************)
Names  == {"A", "B"}
Prices == {"X", "Y"}
Dates  == {"2024-05-01", Today}

\* the rows a worksheet may hold: any cell may be blank.  A blank Price and
\* a cell of another column matter only to line 273's test for a row blank
\* in every column, so they are enumerated only where Date and Product Name
\* are blank too (line 284 drops the other columns).
SheetRows ==
    { r \in [date : Dates \cup {NA}, name : Names \cup {NA},
             price : {"X", NA}, other : {NA, "note"}] :
        /\ r.price = NA => (r.date = NA /\ r.name = NA)
        /\ r.other # NA => (r.date = NA /\ r.name = NA /\ r.price = NA) }

\* the rows another writer adds
EditRows == { Row(d, n, "X") : d \in Dates, n \in Names }

Stores(n) == UNION { [1..k -> SheetRows] : k \in 0..n }

\* the [name, price] pairs one attempt may find, before de-duplication
CandSeqs == UNION { [1..k -> Names \X Prices] : k \in 0..MaxCand }

\* the non-empty DataFrames scrape_with_retry may return
TodayFrames == { ScrapedFrame(c) : c \in CandSeqs } \ {<<>>}

AllNA(r) == r.date = NA /\ r.name = NA /\ r.price = NA /\ r.other = NA

\* line 273: .dropna(how="all")
Dropna(d) == SelectSeq(d, LAMBDA r : ~AllNA(r))

\* lines 281-284: a missing column is a column of NA; keep the three columns
ThreeColumns(d) == [i \in 1..Len(d) |-> [d[i] EXCEPT !.other = NA]]

\* today's rows put before the stored ones
Concat_Swapped(a, b) == b \o a

\* line 286: pd.concat([existing, df_today], ignore_index=True)
Concat(a, b) == a \o b

\* keep="first" instead of keep="last"
MergeDedup_KeepFirst(d) == drop_duplicates(d, BY_DATE_NAME, "first")

\* subset=["Product Name"] instead of ["Date", "Product Name"]
MergeDedup_ByName(d) == drop_duplicates(d, BY_NAME, "last")

\* line 287: .drop_duplicates(subset=["Date", "Product Name"], keep="last")
MergeDedup(d) == drop_duplicates(d, BY_DATE_NAME, "last")

\* lines 275-291: the table upsert_sheet writes, from `existing` and df_today
UpsertTable(ex, df_today) ==
    IF Empty(ex) THEN df_today
    ELSE MergeDedup(Concat(ThreeColumns(ex), df_today))

\* the worksheet after upsert_sheet(df_today) returned
upsert_sheet(s, df_today) == UpsertTable(Dropna(s), df_today)

NoOps == [reads |-> 0, clears |-> 0, writes |-> 0]

SheetIdle ==
    /\ sheet = <<>>
    /\ existing = <<>>
    /\ ops = NoOps
    /\ sheet0 = <<>>
    /\ calls = 0
    /\ rerun = FALSE
    /\ runs = 1

(***************************************************************************)
(* scrape_with_retry and __main__                                          *)
(***************************************************************************)
\* the variable is not set: no str, -1 is no code point
Unset == <<-1>>
\* "true" and "false"
S_true  == <<116, 114, 117, 101>>
S_false == <<102, 97, 108, 115, 101>>
\* unset, "true", "false", "FALSE"
EnvValues == { Unset, S_true, S_false, <<70, 65, 76, 83, 69>> }

\* os.getenv(name, default)
getenv(e, default) == IF e = Unset THEN default ELSE e

\* line 18
HeadlessOf(e) == lower_str(getenv(e, S_true)) # S_false

MainIdle ==
    /\ pc = "idle"
    /\ env = Unset
    /\ HEADLESS = TRUE
    /\ df = <<>>
    /\ ret = <<>>
    /\ launched = <<>>
    /\ results = <<>>
    /\ open = {}
    /\ events = <<>>

\* lines 128 / 191: p.chromium.launch(headless=HEADLESS, ...)
Launch(kind) ==
    /\ launched' = Append(launched, [kind |-> kind, headless |-> HEADLESS])
    /\ open' = open \cup {Len(launched) + 1}
    /\ events' = Append(events, "launch")

\* lines 166 / 237, and the exit of `with sync_playwright()` on an exception
Close ==
    /\ open' = open \ {Len(launched)}
    /\ events' = Append(events, "close")
    /\ UNCHANGED launched

\* an attempt returns its DataFrame
Return(cands) ==
    /\ df' = ScrapedFrame(cands)
    /\ results' = Append(results, df')

\* line 247, up to the launch of line 128
ScrapeJsonLaunch ==
    /\ pc = "start"
    /\ Launch("json")
    /\ pc' = "json"
    /\ UNCHANGED <<env, HEADLESS, df, ret, results, wvars, svars>>

\* lines 129-185
ScrapeJsonReturn ==
    /\ pc = "json"
    /\ \E c \in CandSeqs : Return(c)
    /\ Close
    /\ pc' = "after_json"
    /\ UNCHANGED <<env, HEADLESS, ret, wvars, svars>>

\* lines 150, 200: page.goto raises; nothing in scrape_with_retry catches it
AttemptRaise ==
    /\ pc \in {"json", "dom", "retry"}
    /\ Close
    /\ pc' = "failed"
    /\ UNCHANGED <<env, HEADLESS, df, ret, results, wvars, svars>>

\* lines 248-249
ReturnJson ==
    /\ pc = "after_json"
    /\ ~Empty(df)
    /\ ret' = df
    /\ pc' = "scraped"
    /\ UNCHANGED <<env, HEADLESS, df, launched, results, open, events, wvars, svars>>

\* line 251 without the test of line 248
ScrapeDomLaunch_NoCheck ==
    /\ pc = "after_json"
    /\ Launch("dom")
    /\ pc' = "dom"
    /\ UNCHANGED <<env, HEADLESS, df, ret, results, wvars, svars>>

\* lines 248, 251, up to the launch of line 191
ScrapeDomLaunch ==
    /\ pc = "after_json"
    /\ Empty(df)
    /\ Launch("dom")
    /\ pc' = "dom"
    /\ UNCHANGED <<env, HEADLESS, df, ret, results, wvars, svars>>

\* lines 192-243
ScrapeDomReturn ==
    /\ pc = "dom"
    /\ \E c \in CandSeqs : Return(c)
    /\ Close
    /\ pc' = "after_dom"
    /\ UNCHANGED <<env, HEADLESS, ret, wvars, svars>>

\* lines 252-253
ReturnDom ==
    /\ pc = "after_dom"
    /\ ~Empty(df)
    /\ ret' = df
    /\ pc' = "scraped"
    /\ UNCHANGED <<env, HEADLESS, df, launched, results, open, events, wvars, svars>>

\* lines 252, 256-259, up to the launch of line 191: the environment
\* variable is set, the global HEADLESS that launch() reads is not
RetryLaunch ==
    /\ pc = "after_dom"
    /\ Empty(df)
    /\ HEADLESS
    /\ env' = S_false
    /\ Launch("dom")
    /\ pc' = "retry"
    /\ UNCHANGED <<HEADLESS, df, ret, results, wvars, svars>>

\* lines 192-243, then line 260
RetryReturn ==
    /\ pc = "retry"
    /\ \E c \in CandSeqs : Return(c)
    /\ Close
    /\ env' = S_true
    /\ pc' = "after_retry"
    /\ UNCHANGED <<HEADLESS, ret, wvars, svars>>

\* lines 261-262
ReturnRetry ==
    /\ pc = "after_retry"
    /\ ~Empty(df)
    /\ ret' = df
    /\ pc' = "scraped"
    /\ UNCHANGED <<env, HEADLESS, df, launched, results, open, events, wvars, svars>>

\* line 264 without the test of line 261
ReturnEmpty_NoCheck ==
    /\ \/ pc = "after_dom" /\ Empty(df) /\ ~HEADLESS
       \/ pc = "after_retry"
    /\ ret' = <<>>
    /\ pc' = "scraped"
    /\ UNCHANGED <<env, HEADLESS, df, launched, results, open, events, wvars, svars>>

\* line 264, reached from line 256 (HEADLESS false) or from line 261
ReturnEmpty ==
    /\ \/ pc = "after_dom" /\ Empty(df) /\ ~HEADLESS
       \/ pc = "after_retry" /\ Empty(df)
    /\ ret' = <<>>
    /\ pc' = "scraped"
    /\ UNCHANGED <<env, HEADLESS, df, launched, results, open, events, wvars, svars>>

\* line 302 without the raise of line 305
MainRaiseEmpty_NoRaise ==
    /\ pc = "scraped"
    /\ Empty(ret)
    /\ pc' = "upsert"
    /\ calls' = calls + 1
    /\ UNCHANGED <<env, HEADLESS, df, ret, launched, results, open, events, wvars,
                   sheet, existing, ops, sheet0, rerun, runs>>

\* lines 302-305, 309-311
MainRaiseEmpty ==
    /\ pc = "scraped"
    /\ Empty(ret)
    /\ pc' = "failed"
    /\ UNCHANGED <<env, HEADLESS, df, ret, launched, results, open, events, wvars, svars>>

\* lines 302, 307 and 268-270: upsert_sheet is entered, the worksheet opened
UpsertOpen ==
    /\ pc = "scraped"
    /\ ~Empty(ret)
    /\ pc' = "upsert"
    /\ sheet0' = sheet
    /\ calls' = calls + 1
    /\ UNCHANGED <<env, HEADLESS, df, ret, launched, results, open, events, wvars,
                   sheet, existing, ops, rerun, runs>>

\* line 273
UpsertRead ==
    /\ pc = "upsert"
    /\ existing' = Dropna(sheet)
    /\ ops' = [ops EXCEPT !.reads = @ + 1]
    /\ pc' = "read"
    /\ UNCHANGED <<env, HEADLESS, df, ret, launched, results, open, events, wvars,
                   sheet, sheet0, calls, rerun, runs>>

\* the worksheet is shared: while upsert_sheet waits between its read (line
\* 273) and its clear (lines 277 / 290), another writer adds a row
SheetEdited ==
    /\ pc = "read"
    /\ Len(sheet) < MaxStore
    /\ \E r \in EditRows : sheet' = Append(sheet, r)
    /\ UNCHANGED <<mvars, wvars, existing, ops, sheet0, calls, rerun, runs>>

\* lines 277 / 290: ws.clear()
UpsertClear ==
    /\ pc = "read"
    /\ sheet' = <<>>
    /\ ops' = [ops EXCEPT !.clears = @ + 1]
    /\ pc' = "cleared"
    /\ UNCHANGED <<env, HEADLESS, df, ret, launched, results, open, events, wvars,
                   existing, sheet0, calls, rerun, runs>>

\* lines 278 / 291: set_with_dataframe(...), then line 308
UpsertWrite ==
    /\ pc = "cleared"
    /\ sheet' = UpsertTable(existing, ret)
    /\ ops' = [ops EXCEPT !.writes = @ + 1]
    /\ pc' = "done"
    /\ UNCHANGED <<env, HEADLESS, df, ret, launched, results, open, events, wvars,
                   existing, sheet0, calls, rerun, runs>>

\* a credential or Sheets API error in upsert_sheet (lines 269-291),
\* re-raised by lines 309-311
UpsertRaise ==
    /\ pc \in {"upsert", "read", "cleared"}
    /\ pc' = "failed"
    /\ UNCHANGED <<env, HEADLESS, df, ret, launched, results, open, events, wvars, svars>>

\* one run of the script
Init ==
    /\ WalkIdle
    /\ pc = "start"
    /\ env \in EnvValues
    /\ HEADLESS = HeadlessOf(env)
    /\ df = <<>>
    /\ ret = <<>>
    /\ launched = <<>>
    /\ results = <<>>
    /\ open = {}
    /\ events = <<>>
    /\ sheet \in Stores(MaxMainStore)
    /\ existing = <<>>
    /\ ops = NoOps
    /\ sheet0 = sheet
    /\ calls = 0
    /\ rerun = FALSE
    /\ runs = 1

Next ==
    \/ ScrapeJsonLaunch
    \/ ScrapeJsonReturn
    \/ AttemptRaise
    \/ ReturnJson
    \/ ScrapeDomLaunch
    \/ ScrapeDomReturn
    \/ ReturnDom
    \/ RetryLaunch
    \/ RetryReturn
    \/ ReturnRetry
    \/ ReturnEmpty
    \/ MainRaiseEmpty
    \/ UpsertOpen
    \/ UpsertRead
    \/ SheetEdited
    \/ UpsertClear
    \/ UpsertWrite
    \/ UpsertRaise

Spec == Init /\ [][Next]_vars

(***************************************************************************)
(* The script run again and again on one day, from the return of           *)
(* scrape_with_retry on: upsert_sheet step by step, a run that fails       *)
(* included                                                                *)
(***************************************************************************)
\* lines 294-300 of a later run: the run before it has ended, normally or
\* not, and scrape_with_retry returns a non-empty DataFrame
RunAgain ==
    /\ pc \in {"done", "failed"}
    /\ runs < MaxRuns
    /\ runs' = runs + 1
    /\ \E df_today \in TodayFrames :
         /\ ret' = df_today
         /\ rerun' = (pc = "done" /\ df_today = ret)
    /\ pc' = "scraped"
    /\ ops' = NoOps
    /\ calls' = 0
    /\ existing' = <<>>
    /\ sheet0' = sheet
    /\ UNCHANGED <<env, HEADLESS, df, launched, results, open, events, wvars, sheet>>

InitUpsert ==
    /\ WalkIdle
    /\ pc = "scraped"
    /\ env = Unset
    /\ HEADLESS = HeadlessOf(env)
    /\ df = <<>>
    /\ ret \in TodayFrames
    /\ launched = <<>>
    /\ results = <<>>
    /\ open = {}
    /\ events = <<>>
    /\ sheet \in Stores(MaxStore)
    /\ existing = <<>>
    /\ ops = NoOps
    /\ sheet0 = sheet
    /\ calls = 0
    /\ rerun = FALSE
    /\ runs = 1

NextUpsert ==
    \/ UpsertOpen
    \/ UpsertRead
    \/ SheetEdited
    \/ UpsertClear
    \/ UpsertWrite
    \/ UpsertRaise
    \/ RunAgain

SpecUpsert == InitUpsert /\ [][NextUpsert]_vars

(***************************************************************************)
(* The extraction of scrape_once_json on every bounded payload             *)
(***************************************************************************)
InitWalkAll == InitWalk /\ MainIdle /\ SheetIdle

NextWalk == ExtractJson

SpecWalk == InitWalkAll /\ [][NextWalk]_vars

(***************************************************************************)
(* Properties                                                              *)
(***************************************************************************)
AllEmpty == \A i \in 1..Len(results) : Empty(results[i])

\* the first non-empty DataFrame an attempt returned, or the empty one
FirstNonEmpty ==
    IF AllEmpty THEN <<>>
    ELSE results[CHOOSE i \in 1..Len(results) :
                    /\ ~Empty(results[i])
                    /\ \A j \in 1..(i - 1) : Empty(results[j])]

\* C1: while every attempt that returned has returned an empty RecordSet,
\* upsert_sheet is not entered and the worksheet is neither read, cleared
\* nor written, and the run cannot end normally; once scrape_with_retry has
\* returned such a result the run can only fail; and a run that has ended
\* normally has written the merged store, once.
C1_EmptyRunFails ==
    /\ AllEmpty =>
         /\ ops = NoOps
         /\ sheet = sheet0
         /\ calls = 0
         /\ pc \notin {"upsert", "read", "cleared", "done"}
    /\ (pc = "scraped" /\ AllEmpty) => (Empty(ret) /\ ~ENABLED UpsertOpen)
    /\ pc = "done" =>
         /\ ~Empty(ret)
         /\ ops = [reads |-> 1, clears |-> 1, writes |-> 1]
         /\ sheet = upsert_sheet(sheet0, ret)

C1_Witness ==
    /\ pc = "failed"
    /\ Len(results) = 3
    /\ AllEmpty
    /\ ops = NoOps

UniqueKeys(d) ==
    \A i, j \in 1..Len(d) : i # j => DateNameKey(d[i]) # DateNameKey(d[j])

\* a row of the store and a row of today's RecordSet for the same
\* (date, product_name) with different prices
Conflict(s, r) == DateNameKey(s) = DateNameKey(r) /\ s.price # r.price

\* C2: after upsert_sheet returned, the written store has at most one row per
\* (date, product_name), and where the store it read had a row for a key of
\* today's RecordSet with another price, the written store has exactly one
\* row for that key, with today's price.
C2_TodayWins ==
    pc = "done" =>
      /\ UniqueKeys(sheet)
      /\ \A i \in 1..Len(existing) : \A j \in 1..Len(ret) :
           Conflict(existing[i], ret[j]) =>
             /\ Cardinality({k \in 1..Len(sheet) :
                    DateNameKey(sheet[k]) = DateNameKey(ret[j])}) = 1
             /\ \A k \in 1..Len(sheet) :
                    DateNameKey(sheet[k]) = DateNameKey(ret[j])
                      => sheet[k].price = ret[j].price

C2_Witness ==
    /\ pc = "done"
    /\ \E i \in 1..Len(existing) : \E j \in 1..Len(ret) : Conflict(existing[i], ret[j])
    /\ \E k \in 1..Len(sheet) : sheet[k].date # Today

\* C3: a call of upsert_sheet that returned, made with the RecordSet of the
\* call before it, which returned too, leaves the store as it found it, that
\* is as the call before left it: same rows, same order.
C3_Idempotent == (pc = "done" /\ rerun) => sheet = sheet0

\* every object of a payload, at any depth
RECURSIVE Objects(_)
Objects(x) ==
    IF x.t = "dict"
    THEN {x} \cup UNION { Objects(x.v[i][2]) : i \in 1..Len(x.v) }
    ELSE IF x.t = "list" THEN UNION { Objects(x.v[i]) : i \in 1..Len(x.v) }
    ELSE {}

\* the key of obj for the first candidate that obj has, None when it has none
AnyKey(obj, keys) ==
    LET lower == LowerDict(obj.v)
        hits  == {i \in 1..Len(keys) : DictGet(lower, keys[i], None) # None}
    IN IF hits = {} THEN None
       ELSE DictGet(lower, keys[CHOOSE i \in hits : \A j \in hits : i <= j], None)

\* C4: an object with a name-candidate key and a price-candidate key (the
\* first candidate of each list that the object has, compared in lower
\* case), a non-empty name and an int or float price adds [name, rupee + price] to the
\* records found; {"title": "1g Gold Coin", "price": 6500} gives
\* ["1g Gold Coin", rupee + "6500"].
C4_AnyCandidateKey ==
    wpc = "done" =>
      /\ \A b \in 1..Len(json_bodies) : \A obj \in Objects(json_bodies[b]) :
           LET nk == AnyKey(obj, NAME_KEYS)
               pk == AnyKey(obj, PRICE_KEYS)
           IN (/\ nk # None
               /\ pk # None
               /\ DictGet(obj.v, pk, JNull).t \in {"int", "float"}
               /\ strip(str(DictGet(obj.v, nk, JNull))) # <<>>)
              => \E c \in 1..Len(candidates) :
                    candidates[c] =
                      << strip(str(DictGet(obj.v, nk, JNull))),
                         <<RUPEE>> \o Repr(DictGet(obj.v, pk, JNull)) >>
      /\ json_bodies = << JDict(<< <<K_title, JStr(T_coin)>>, <<K_price, JInt(6500)>> >>) >>
           => candidates = << <<T_coin, <<RUPEE, 54, 53, 48, 48>> >> >>

\* C5: what scrape_with_retry returns is the DataFrame of the first attempt
\* that returned a non-empty one (so the third attempt's when the first two
\* were empty), and the empty DataFrame when there is none; an attempt that
\* returned a non-empty DataFrame is the last attempt.
C5_FirstNonEmpty ==
    pc = "scraped" =>
      /\ ret = FirstNonEmpty
      /\ (Len(results) = 3 /\ ~Empty(results[3])) => ret = results[3]
      /\ ~Empty(ret) => ret = results[Len(results)]

C5_Witness ==
    /\ pc = "scraped"
    /\ Len(results) = 3
    /\ Empty(results[1]) /\ Empty(results[2])
    /\ Len(results[3]) = 2
    /\ ret = results[3]

\* the rows upsert_sheet read (line 273), in the three columns
Read3 == ThreeColumns(existing)

\* C6: after upsert_sheet returned, every (date, product_name) of a row read from the store with a date
\* other than today is in the written store; if it was on one row only, that
\* row is written unchanged; and a row read is missing from the written
\* store only if a later row, of the store or of today's RecordSet, has its
\* (date, product_name).
C6_HistoryKept ==
    pc = "done" =>
      LET read == Read3
          all  == read \o ret
          keys == [i \in 1..Len(all) |-> DateNameKey(all[i])]
          rows == {sheet[k] : k \in 1..Len(sheet)}
      IN /\ \A i \in 1..Len(read) :
              read[i].date # Today =>
                /\ \E r \in rows : DateNameKey(r) = keys[i]
                /\ Cardinality({j \in 1..Len(read) : keys[j] = keys[i]}) = 1
                     => read[i] \in rows
         /\ \A i \in 1..Len(read) :
              read[i] \notin rows =>
                \E j \in (i + 1)..Len(all) : keys[j] = keys[i]

C6_Witness ==
    /\ pc = "done"
    /\ Len(existing) = 2
    /\ existing[1].date = "2024-05-01" /\ existing[1].name = "A"
    /\ existing[2].date = Today /\ existing[2].name = "A"
    /\ \E j \in 1..Len(ret) : ret[j].name = "A" /\ ret[j].price = "Y"
    /\ sheet[1] = existing[1]

\* C7: in a run started headless whose ladder reaches its third launch, the
\* third browser is launched in the other render mode than the second.
C7_RetryIsHeadful ==
    (Len(launched) = 3 /\ launched[1].headless)
      => launched[3].headless # launched[2].headless

\* the attempts of scrape_with_retry, in order
LADDER == <<"json", "dom", "dom">>

\* C8: at most three attempts, in the order json, DOM, DOM; an attempt is
\* launched only when every attempt before it has returned an empty
\* DataFrame; at most one browser is open, the one of the attempt under way,
\* and each launch is followed by its close before the next launch.
C8_Sequential ==
    /\ Len(launched) <= 3
    /\ \A i \in 1..Len(launched) : launched[i].kind = LADDER[i]
    /\ Len(results) <= Len(launched)
    /\ Len(launched) <= Len(results) + 1
    /\ \A i \in 1..(Len(launched) - 1) : i <= Len(results) /\ Empty(results[i])
    /\ \A i \in 1..Len(results) : ~Empty(results[i]) => i = Len(launched)
    /\ Cardinality(open) <= 1
    /\ open \subseteq {Len(launched)}
    /\ open # {} <=> pc \in {"json", "dom", "retry"}
    /\ \A i \in 1..Len(events) :
         events[i] = (IF i % 2 = 1 THEN "launch" ELSE "close")

C8_Witness ==
    /\ Len(launched) = 3
    /\ Len(results) = 3
    /\ open = {}
    /\ ~Empty(results[3])
    /\ pc = "done"

\* C9: no launch directly follows the close of the attempt before it: a
\* pause step lies between them.
C9_PauseBetweenAttempts ==
    \A i \in 2..Len(events) : events[i] = "launch" => events[i - 1] = "sleep"

\* the places of the rows of d that have no later row with their
\* (date, product_name) in d
LastPlaces(d) ==
    {i \in 1..Len(d) :
        \A j \in (i + 1)..Len(d) : DateNameKey(d[j]) # DateNameKey(d[i])}

\* C10: after upsert_sheet returned, the written store is the rows read that have no later row with
\* their (date, product_name) among the rows read and today's rows, in the
\* order they were read, followed by all of today's rows in scrape order.
C10_RowOrder ==
    pc = "done" =>
      LET read == Read3
          hist == LastPlaces(read \o ret) \cap (1..Len(read))
      IN /\ sheet = RowsAt(read, hist, 1) \o ret
         /\ \A k \in 1..Len(ret) : sheet[Len(sheet) - Len(ret) + k] = ret[k]

C10_Witness ==
    /\ pc = "done"
    /\ Len(ret) = 2
    /\ Len(sheet) = 4
    /\ Len(Read3) >= 3
    /\ sheet[1].date = Today
    /\ sheet[2].date # Today
=============================================================================
